---- MODULE Spec2Model ----
(***************************************************************************)
(* MeshFunction<T> (src/src/kernel/mesh/dolfin/MeshFunction.h): a buffer   *)
(* of T, one slot per mesh entity of one topological dimension, owned by   *)
(* the object and reached through the raw pointer _values, next to a       *)
(* non-owning pointer _mesh to the mesh.                                   *)
(*                                                                         *)
(* The model holds one MeshFunction object, the part of the free store     *)
(* that new[] and delete[] act on, and the outcome of the last call.       *)
(* Pointers are addresses, 0 the null pointer.  A slot that new T[size]    *)
(* left default-initialised holds Indeterminate, and reading it yields     *)
(* any value of T.                                                         *)
(***************************************************************************)
EXTENDS Integers, Sequences, FiniteSets, TLC

\* ------------------------------------------------------------- bounds
MaxDim   == 1      \* topological dimensions 0..MaxDim
MaxCount == 2      \* a mesh has at most MaxCount entities of a dimension
MaxReq   == 2      \* sizes and indices passed by callers: 0..MaxReq
MaxValue == 2      \* values of T: 1..MaxValue

\* ------------------------------------------------------------- domains
NullPtr       == 0
Indeterminate == 0

Meshes == {1, 2}                  \* addresses of two Mesh objects
Addrs  == {1, 2}                  \* addresses new[] can return
Dims   == 0..MaxDim
Sizes  == 0..MaxReq
Values == 1..MaxValue

\* Mesh::size(dim): the number of entities of dimension dim.  The two
\* meshes differ in every dimension, and one dimension of a mesh is empty.
MeshSize(mesh, dim) == (mesh + 2 * dim) % (MaxCount + 1)

\* MeshEntity handles: mesh(), dim(), index() of an entity that exists.
Entities ==
  {e \in [mesh : Meshes, dim : Dims, index : 0..MaxCount] :
     e.index < MeshSize(e.mesh, e.dim)}

VARIABLES
  _values,   \* T* _values: NullPtr or the address of the buffer
  _mesh,     \* const Mesh* _mesh: NullPtr or a mesh
  _dim,      \* uint _dim
  _size,     \* uint _size
  heap,      \* free store: address -> [state, slots]
  alive,     \* FALSE once the destructor has run
  call,      \* the last call made on the object
  ret,       \* what it returned (0 for void)
  err,       \* "None", or the contract violation it stopped with
  pc,        \* position of the scripted caller ("any": unscripted)
  scen       \* the scripted caller's mesh, dimension, index and value

objvars == <<_values, _mesh, _dim, _size, heap, alive>>
outvars == <<call, ret, err>>
drvvars == <<pc, scen>>
vars    == <<_values, _mesh, _dim, _size, heap, alive, call, ret, err, pc, scen>>

\* ------------------------------------------------------------- free store
NoBlock == [state |-> "unused", slots |-> <<>>]

\* new T[size]: a live block of size default-initialised slots at address a
\* (the allocation is taken to succeed)
new_array(h, a, size) ==
  [h EXCEPT ![a] = [state |-> "live",
                    slots |-> [i \in 1..size |-> Indeterminate]]]

\* delete [] p: releases a live block; a second release is recorded
delete_array(h, a) ==
  [h EXCEPT ![a] = [state |-> IF h[a].state = "live" THEN "freed"
                              ELSE "doublefreed",
                    slots |-> <<>>]]

\* addresses new[] may return: any that holds no live block
FreeAddrs(h) == {a \in Addrs : h[a].state # "live"}

\* ------------------------------------------------------------- outcomes
Call(op, mesh, dim, size, index, value) ==
  [op |-> op, mesh |-> mesh, dim |-> dim, size |-> size,
   index |-> index, value |-> value]

\* normal return of call c with value r
Returns(c, r) == call' = c /\ ret' = r /\ err' = "None"

\* dolfin_assert / dolfin_error: the call stops, the object is untouched.
\* Both macros are defined in the logging headers, outside this file; a
\* violation is taken to be fatal at the point of detection, as the design's
\* error policy states (a build that compiles the assertions out is not
\* modelled).
Fails(c, e) == call' = c /\ ret' = 0 /\ err' = e /\ UNCHANGED objvars

\* dolfin_assert(check): "None" when the check holds, else the violation
dolfin_assert(check, violation) == IF check THEN "None" ELSE violation

\* the first violated assertion of a sequence of assertions, or "None"
FirstViolation(asserts) ==
  IF \A k \in 1..Len(asserts) : asserts[k] = "None" THEN "None"
  ELSE asserts[CHOOSE k \in 1..Len(asserts) :
                 /\ asserts[k] # "None"
                 /\ \A j \in 1..(k - 1) : asserts[j] = "None"]

\* reading slot index of the buffer: the stored value, or any value of T
\* when the slot is still default-initialised
ReadSlot(index) ==
  LET s == heap[_values].slots[index + 1]
  IN  IF s = Indeterminate THEN Values ELSE {s}

\* ------------------------------------------------------------- constructors
InitObject ==
  /\ _values = NullPtr
  /\ _mesh \in {NullPtr} \cup Meshes     \* MeshFunction() or MeshFunction(mesh)
  /\ _dim = 0
  /\ _size = 0
  /\ heap = [a \in Addrs |-> NoBlock]
  /\ alive = TRUE
  /\ call = Call("MeshFunction", _mesh, 0, 0, 0, 0)
  /\ ret = 0
  /\ err = "None"

NoScenario == [mesh |-> 0, dim |-> 0, index |-> 0, value |-> 0]

Init == InitObject /\ pc = "any" /\ scen = NoScenario

\* ------------------------------------------------------------- destructor
Destroy ==
  /\ alive
  /\ alive' = FALSE
  /\ IF _values # NullPtr
     THEN heap' = delete_array(heap, _values)
     ELSE heap' = heap
  /\ UNCHANGED <<_values, _mesh, _dim, _size>>
  /\ Returns(Call("~MeshFunction", 0, 0, 0, 0, 0), 0)

\* ------------------------------------------------------------- accessors
\* mesh(): dolfin_assert(_mesh); return *_mesh
mesh_accessor ==
  /\ alive
  /\ LET c == Call("mesh", 0, 0, 0, 0, 0)
         v == FirstViolation(<<dolfin_assert(_mesh # NullPtr, "NoMeshBound")>>)
     IN  IF v # "None" THEN Fails(c, v)
         ELSE Returns(c, _mesh) /\ UNCHANGED objvars

\* dim(): return _dim
dim_accessor ==
  /\ alive
  /\ Returns(Call("dim", 0, 0, 0, 0, 0), _dim)
  /\ UNCHANGED objvars

\* size(): return _size
size_accessor ==
  /\ alive
  /\ Returns(Call("size", 0, 0, 0, 0, 0), _size)
  /\ UNCHANGED objvars

\* values(): return _values
values_accessor ==
  /\ alive
  /\ Returns(Call("values", 0, 0, 0, 0, 0), _values)
  /\ UNCHANGED objvars

\* ------------------------------------------------------------- init
\* init_body that keeps the buffer when one of the wanted size exists
init_body_keep(mesh, dim, size) ==
  /\ _mesh' = mesh
  /\ _dim' = dim
  /\ _size' = size
  /\ IF _values # NullPtr /\ Len(heap[_values].slots) = size
     THEN UNCHANGED <<_values, heap>>
     ELSE LET h == IF _values # NullPtr THEN delete_array(heap, _values)
                   ELSE heap
          IN  \E a \in FreeAddrs(h) :
                /\ _values' = a
                /\ heap' = new_array(h, a, size)
  /\ UNCHANGED alive

\* init_body that does not release the buffer it replaces
init_body_leak(mesh, dim, size) ==
  /\ _mesh' = mesh
  /\ _dim' = dim
  /\ _size' = size
  /\ \E a \in FreeAddrs(heap) :
       /\ _values' = a
       /\ heap' = new_array(heap, a, size)
  /\ UNCHANGED alive

\* init(const Mesh& mesh, uint dim, uint size), the statements of its body
init_body(mesh, dim, size) ==
  /\ _mesh' = mesh
  /\ _dim' = dim
  /\ _size' = size
  /\ LET h == IF _values # NullPtr THEN delete_array(heap, _values) ELSE heap
     IN  \E a \in FreeAddrs(h) :
           /\ _values' = a
           /\ heap' = new_array(h, a, size)
  /\ UNCHANGED alive

\* init(mesh, dim, size) that sizes by the mesh's count instead of size
init_mesh_dim_size_count(mesh, dim, size) ==
  /\ alive
  /\ init_body(mesh, dim, MeshSize(mesh, dim))
  /\ Returns(Call("init_mesh_dim_size", mesh, dim, size, 0, 0), 0)

\* init(const Mesh& mesh, uint dim, uint size)
init_mesh_dim_size(mesh, dim, size) ==
  /\ alive
  /\ init_body(mesh, dim, size)
  /\ Returns(Call("init_mesh_dim_size", mesh, dim, size, 0, 0), 0)

\* init(mesh, dim) that asks the mesh for the count of the old dimension
init_mesh_dim_olddim(mesh, dim) ==
  /\ alive
  /\ init_body(mesh, dim, MeshSize(mesh, _dim))
  /\ Returns(Call("init_mesh_dim", mesh, dim, 0, 0, 0), 0)

\* init(const Mesh& mesh, uint dim): init(mesh, dim, mesh.size(dim))
init_mesh_dim(mesh, dim) ==
  /\ alive
  /\ init_body(mesh, dim, MeshSize(mesh, dim))
  /\ Returns(Call("init_mesh_dim", mesh, dim, 0, 0, 0), 0)

\* init(uint dim): needs a mesh, then init(*_mesh, dim, _mesh->size(dim))
init_dim(dim) ==
  /\ alive
  /\ LET c == Call("init_dim", 0, dim, 0, 0, 0)
     IN  IF _mesh = NullPtr THEN Fails(c, "NoMeshBound")
         ELSE init_body(_mesh, dim, MeshSize(_mesh, dim)) /\ Returns(c, 0)

\* init(dim, size) that passes its size argument on
init_dim_size_given(dim, size) ==
  /\ alive
  /\ LET c == Call("init_dim_size", 0, dim, size, 0, 0)
     IN  IF _mesh = NullPtr THEN Fails(c, "NoMeshBound")
         ELSE init_body(_mesh, dim, size) /\ Returns(c, 0)

\* init(dim, size) without the test for a bound mesh
init_dim_size_nocheck(dim, size) ==
  /\ alive
  /\ init_body(_mesh, dim, MeshSize(_mesh, dim))
  /\ Returns(Call("init_dim_size", 0, dim, size, 0, 0), 0)

\* init(uint dim, uint size): needs a mesh, then
\* init(*_mesh, dim, _mesh->size(dim)); the size argument is not used
init_dim_size(dim, size) ==
  /\ alive
  /\ LET c == Call("init_dim_size", 0, dim, size, 0, 0)
     IN  IF _mesh = NullPtr THEN Fails(c, "NoMeshBound")
         ELSE init_body(_mesh, dim, MeshSize(_mesh, dim)) /\ Returns(c, 0)

\* ------------------------------------------------------------- access
\* get's assertions without the one on _values
get_asserts_noinit(entity) ==
  << dolfin_assert(entity.mesh = _mesh, "EntityMeshMismatch"),
     dolfin_assert(entity.dim = _dim, "DimensionMismatch"),
     dolfin_assert(entity.index < _size, "IndexOutOfRange") >>

\* the four assertions of get(const MeshEntity&), in source order
get_asserts(entity) ==
  << dolfin_assert(_values # NullPtr, "UseBeforeInit"),
     dolfin_assert(entity.mesh = _mesh, "EntityMeshMismatch"),
     dolfin_assert(entity.dim = _dim, "DimensionMismatch"),
     dolfin_assert(entity.index < _size, "IndexOutOfRange") >>

\* get(const MeshEntity& entity): return _values[entity.index()]
get(entity) ==
  /\ alive
  /\ LET c == Call("get", entity.mesh, entity.dim, 0, entity.index, 0)
         v == FirstViolation(get_asserts(entity))
     IN  IF v # "None" THEN Fails(c, v)
         ELSE /\ \E r \in ReadSlot(entity.index) : Returns(c, r)
              /\ UNCHANGED objvars

\* operator()'s assertions without the one on the entity's mesh
access_asserts_nomesh(entity) ==
  << dolfin_assert(_values # NullPtr, "UseBeforeInit"),
     dolfin_assert(entity.dim = _dim, "DimensionMismatch"),
     dolfin_assert(entity.index < _size, "IndexOutOfRange") >>

\* the four assertions of operator()(MeshEntity&), both overloads
access_asserts(entity) ==
  << dolfin_assert(_values # NullPtr, "UseBeforeInit"),
     dolfin_assert(entity.mesh = _mesh, "EntityMeshMismatch"),
     dolfin_assert(entity.dim = _dim, "DimensionMismatch"),
     dolfin_assert(entity.index < _size, "IndexOutOfRange") >>

\* operator()(MeshEntity& entity), the returned reference read
access_read(entity) ==
  /\ alive
  /\ LET c == Call("access_read", entity.mesh, entity.dim, 0, entity.index, 0)
         v == FirstViolation(access_asserts(entity))
     IN  IF v # "None" THEN Fails(c, v)
         ELSE /\ \E r \in ReadSlot(entity.index) : Returns(c, r)
              /\ UNCHANGED objvars

\* operator()(MeshEntity& entity), the returned reference assigned value
access_write(entity, value) ==
  /\ alive
  /\ LET c == Call("access_write", entity.mesh, entity.dim, 0, entity.index, value)
         v == FirstViolation(access_asserts(entity))
     IN  IF v # "None" THEN Fails(c, v)
         ELSE /\ heap' = [heap EXCEPT ![_values].slots[entity.index + 1] = value]
              /\ UNCHANGED <<_values, _mesh, _dim, _size, alive>>
              /\ Returns(c, 0)

\* set's assertions with the index compared by <= instead of <
set_asserts_offbyone(index) ==
  << dolfin_assert(_values # NullPtr, "UseBeforeInit"),
     dolfin_assert(index <= _size, "IndexOutOfRange") >>

\* the two assertions of set(uint, const T&), in source order
set_asserts(index) ==
  << dolfin_assert(_values # NullPtr, "UseBeforeInit"),
     dolfin_assert(index < _size, "IndexOutOfRange") >>

\* set that writes the first slot whatever the index
set_first(index, value) ==
  /\ alive
  /\ LET c == Call("set", 0, 0, 0, index, value)
         v == FirstViolation(<< dolfin_assert(_values # NullPtr, "UseBeforeInit"),
                                dolfin_assert(index < _size, "IndexOutOfRange") >>)
     IN  IF v # "None" THEN Fails(c, v)
         ELSE /\ heap' = [heap EXCEPT ![_values].slots[1] = value]
              /\ UNCHANGED <<_values, _mesh, _dim, _size, alive>>
              /\ Returns(c, 0)

\* set(uint index, const T& value): _values[index] = value
set(index, value) ==
  /\ alive
  /\ LET c == Call("set", 0, 0, 0, index, value)
         v == FirstViolation(set_asserts(index))
     IN  IF v # "None" THEN Fails(c, v)
         ELSE /\ heap' = [heap EXCEPT ![_values].slots[index + 1] = value]
              /\ UNCHANGED <<_values, _mesh, _dim, _size, alive>>
              /\ Returns(c, 0)

\* ------------------------------------------------------------- any caller
DoMesh   == mesh_accessor /\ UNCHANGED drvvars
DoDim    == dim_accessor /\ UNCHANGED drvvars
DoSize   == size_accessor /\ UNCHANGED drvvars
DoValues == values_accessor /\ UNCHANGED drvvars
DoInitDim ==
  \E d \in Dims : init_dim(d) /\ UNCHANGED drvvars
DoInitDimSize ==
  \E d \in Dims, n \in Sizes : init_dim_size(d, n) /\ UNCHANGED drvvars
DoInitMeshDim ==
  \E m \in Meshes, d \in Dims : init_mesh_dim(m, d) /\ UNCHANGED drvvars
DoInitMeshDimSize ==
  \E m \in Meshes, d \in Dims, n \in Sizes :
    init_mesh_dim_size(m, d, n) /\ UNCHANGED drvvars
DoGet ==
  \E e \in Entities : get(e) /\ UNCHANGED drvvars
DoAccessRead ==
  \E e \in Entities : access_read(e) /\ UNCHANGED drvvars
DoAccessWrite ==
  \E e \in Entities, x \in Values : access_write(e, x) /\ UNCHANGED drvvars
DoSet ==
  \E i \in Sizes, x \in Values : set(i, x) /\ UNCHANGED drvvars
DoDestroy == Destroy /\ UNCHANGED drvvars

Next ==
  \/ DoMesh \/ DoDim \/ DoSize \/ DoValues
  \/ DoInitDim \/ DoInitDimSize \/ DoInitMeshDim \/ DoInitMeshDimSize
  \/ DoGet \/ DoAccessRead \/ DoAccessWrite \/ DoSet
  \/ DoDestroy

Spec == Init /\ [][Next]_vars

\* ------------------------------------------------------------- scripted caller
\* The scenario of a caller that binds, writes one slot, may write other
\* slots, reads the slot back, initialises again on the same mesh and
\* dimension and reads once more.
ScenEntity == [mesh |-> scen.mesh, dim |-> scen.dim, index |-> scen.index]

InitScenario == InitObject /\ pc = "start" /\ scen = NoScenario

T_Init ==
  /\ pc = "start"
  /\ \E m \in Meshes, d \in Dims :
       /\ MeshSize(m, d) > 0
       /\ init_mesh_dim(m, d)
       /\ scen' = [scen EXCEPT !.mesh = m, !.dim = d]
  /\ pc' = "inited"

T_Set ==
  /\ pc = "inited"
  /\ \E i \in 0..(_size - 1), x \in Values :
       /\ set(i, x)
       /\ scen' = [scen EXCEPT !.index = i, !.value = x]
  /\ pc' = "written"

T_SetOther ==
  /\ pc = "written"
  /\ \E j \in Sizes \ {scen.index}, x \in Values : set(j, x)
  /\ UNCHANGED drvvars

T_Get ==
  /\ pc = "written"
  /\ get(ScenEntity)
  /\ pc' = "read"
  /\ UNCHANGED scen

T_Access ==
  /\ pc = "written"
  /\ access_read(ScenEntity)
  /\ pc' = "read"
  /\ UNCHANGED scen

T_Reinit ==
  /\ pc \in {"written", "read"}
  /\ init_mesh_dim(scen.mesh, scen.dim)
  /\ pc' = "reinited"
  /\ UNCHANGED scen

T_GetAfter ==
  /\ pc = "reinited"
  /\ get(ScenEntity)
  /\ pc' = "done"
  /\ UNCHANGED scen

NextScenario ==
  \/ T_Init \/ T_Set \/ T_SetOther \/ T_Get \/ T_Access
  \/ T_Reinit \/ T_GetAfter

SpecScenario == InitScenario /\ [][NextScenario]_vars

\* ------------------------------------------------------------- properties
Initialized == _values # NullPtr
LiveAddrs   == {a \in Addrs : heap[a].state = "live"}
Released    == {a \in Addrs : heap[a].state = "freed"}
Buffer      == heap[_values].slots
EntityOps   == {"get", "access_read", "access_write"}
AccessOps   == {"get", "access_read", "access_write", "set"}

\* C1: after init(m, d), from any prior state, size() is the number of
\* entities of dimension d of m, dim() is d and mesh() is m; after a
\* successful init(d), size() is the count of the bound mesh at d and dim()
\* is d; size(), dim() and mesh() report the fields.
C1_InitBindsMeshCount ==
  /\ call.op = "init_mesh_dim" =>
       /\ err = "None"
       /\ _size = MeshSize(call.mesh, call.dim)
       /\ _dim = call.dim
       /\ _mesh = call.mesh
  /\ (call.op = "init_dim" /\ err = "None") =>
       /\ _mesh # NullPtr
       /\ _size = MeshSize(_mesh, call.dim)
       /\ _dim = call.dim
  /\ call.op = "size" => ret = _size
  /\ call.op = "dim" => ret = _dim
  /\ (call.op = "mesh" /\ err = "None") => ret = _mesh

\* C1 witness: init(m, d) has run on a map that held a buffer before
C1_Witness ==
  /\ call.op = "init_mesh_dim"
  /\ _size = MeshSize(call.mesh, call.dim)
  /\ _size > 0
  /\ Released # {}

\* C2 as stated: after init(m, d, requestedSize), size() is the mesh's
\* count at d and the buffer has that many slots, whatever requestedSize.
C2_Original ==
  call.op = "init_mesh_dim_size" =>
    /\ _size = MeshSize(call.mesh, call.dim)
    /\ Len(Buffer) = MeshSize(call.mesh, call.dim)

\* C2 amended: after init(m, d, requestedSize), size() is requestedSize,
\* the buffer is live with exactly requestedSize slots, dim() is d and the
\* bound mesh is m; the mesh's count is not consulted.
C2_InitHonoursRequestedSize ==
  call.op = "init_mesh_dim_size" =>
    /\ err = "None"
    /\ _size = call.size
    /\ _dim = call.dim
    /\ _mesh = call.mesh
    /\ Initialized
    /\ heap[_values].state = "live"
    /\ Len(Buffer) = call.size

\* C2 witness: init(m, d, requestedSize) with requestedSize different from
\* the mesh's count has run
C2_Witness ==
  /\ call.op = "init_mesh_dim_size"
  /\ call.size # MeshSize(call.mesh, call.dim)
  /\ _size = call.size

C4_RoundTripInv ==
  pc = "read" => (err = "None" /\ ret = scen.value)

\* a successful set writes its slot and nothing else
C4_SetFrame ==
  (call'.op = "set" /\ err' = "None") =>
    /\ UNCHANGED <<_values, _mesh, _dim, _size, alive>>
    /\ call'.index < _size
    /\ heap' = [heap EXCEPT ![_values].slots[call'.index + 1] = call'.value]

\* C4: after init, set(i, v) and any sets to other indices, get or access
\* of the entity with index i returns v; and a successful set(i, v) changes
\* slot i alone: the other slots, size, dim, mesh binding and buffer
\* address stay as they were.
C4_WriteReadRoundTrip == [] C4_RoundTripInv /\ [][C4_SetFrame]_vars

\* C4 witness: the slot was read back after another slot had been written
C4_Witness ==
  /\ pc = "read"
  /\ ret = scen.value
  /\ \E j \in 1..Len(Buffer) :
       j # scen.index + 1 /\ Buffer[j] # Indeterminate

\* C5: while no init has succeeded, every get, access and set stops with
\* UseBeforeInit, whatever its arguments, and the map stays without a
\* buffer and with size 0.
C5_UseBeforeInit ==
  (call.op \in AccessOps /\ ~Initialized) =>
    /\ err = "UseBeforeInit"
    /\ ret = 0
    /\ _size = 0
    /\ LiveAddrs = {}

\* C5 witness: a get with an entity of another mesh than the one given to
\* the constructor stopped with UseBeforeInit
C5_Witness ==
  /\ call.op = "get"
  /\ ~Initialized
  /\ _mesh # NullPtr
  /\ call.mesh # _mesh
  /\ err = "UseBeforeInit"

\* C6 as stated: on an initialized map every get or access with an entity
\* whose index is >= size(), and every set with an index >= size(), stops
\* with IndexOutOfRange.
C6_Original ==
  (call.op \in AccessOps /\ Initialized /\ call.index >= _size) =>
    err = "IndexOutOfRange"

\* the outcome of an access at an index the buffer does not have
C6_IndexInv ==
  /\ (call.op \in AccessOps /\ Initialized /\ call.index >= _size) =>
       /\ err # "None"
       /\ ret = 0
       /\ (call.op = "set" => err = "IndexOutOfRange")
       /\ (call.op \in EntityOps /\ call.mesh = _mesh /\ call.dim = _dim) =>
            err = "IndexOutOfRange"
       /\ (call.op \in EntityOps /\ call.mesh # _mesh) =>
            err = "EntityMeshMismatch"
       /\ (call.op \in EntityOps /\ call.mesh = _mesh /\ call.dim # _dim) =>
            err = "DimensionMismatch"
  /\ (call.op \in AccessOps /\ err = "None") =>
       /\ Initialized
       /\ heap[_values].state = "live"
       /\ call.index < Len(Buffer)

\* an access that stops leaves the object and the free store alone
C6_FailureFrame ==
  (call'.op \in AccessOps /\ err' # "None") => UNCHANGED objvars

\* C6 amended: on an initialized map, set with an index >= size() stops
\* with IndexOutOfRange; get or access with an entity whose index is >=
\* size() stops with IndexOutOfRange when the entity is of the bound mesh
\* and dimension, and with the violation of the mesh or dimension check
\* otherwise; a call that stops changes nothing; and every access that
\* succeeds is at an index below the number of slots of the live buffer.
C6_IndexBound == [] C6_IndexInv /\ [][C6_FailureFrame]_vars

\* C6 witness: get of an entity of the bound mesh and dimension, with an
\* index the buffer does not have, stopped with IndexOutOfRange
C6_Witness ==
  /\ call.op = "get"
  /\ Initialized
  /\ call.mesh = _mesh
  /\ call.dim = _dim
  /\ call.index >= _size
  /\ err = "IndexOutOfRange"

\* C7 as stated: on an initialized map, get or access with an entity of
\* another mesh stops with EntityMeshMismatch, and with an entity of
\* another dimension stops with DimensionMismatch.
C7_Original ==
  (call.op \in EntityOps /\ Initialized) =>
    /\ call.mesh # _mesh => err = "EntityMeshMismatch"
    /\ call.dim # _dim => err = "DimensionMismatch"

\* the outcome of an access with an entity of another mesh or dimension
C7_BindingInv ==
  (call.op \in EntityOps /\ Initialized) =>
    /\ call.mesh # _mesh => (err = "EntityMeshMismatch" /\ ret = 0)
    /\ (call.mesh = _mesh /\ call.dim # _dim) =>
         (err = "DimensionMismatch" /\ ret = 0)

\* such an access leaves the object and the free store alone
C7_RejectFrame ==
  (call'.op \in EntityOps /\ Initialized
     /\ (call'.mesh # _mesh \/ call'.dim # _dim)) => UNCHANGED objvars

\* C7 amended: on an initialized map, after any sequence of inits, get or
\* access with an entity of another mesh than the bound one stops with
\* EntityMeshMismatch, whatever the entity's dimension; with an entity of
\* the bound mesh and another dimension it stops with DimensionMismatch;
\* either way no value is returned and nothing is modified.
C7_BindingValidation == [] C7_BindingInv /\ [][C7_RejectFrame]_vars

\* C7 witness: after a re-init, an entity of the bound mesh and another
\* dimension was rejected with DimensionMismatch
C7_Witness ==
  /\ call.op \in EntityOps
  /\ Initialized
  /\ Released # {}
  /\ call.mesh = _mesh
  /\ call.dim # _dim
  /\ err = "DimensionMismatch"

\* C8 as stated: after init(m, d), set(i, X) and a second init(m, d), get
\* of the entity with index i does not return X.
C8_Original ==
  pc = "done" => ret # scen.value

\* C8 amended: the second init(m, d) releases the previous buffer and
\* allocates a fresh one of the same size whose slots are all
\* default-initialised, so nothing written before is kept; get of the
\* entity with index i then succeeds with an indeterminate value, which
\* may or may not be X.
C8_ReinitFreshBuffer ==
  /\ pc = "reinited" =>
       /\ Initialized
       /\ LiveAddrs = {_values}
       /\ Len(Buffer) = MeshSize(scen.mesh, scen.dim)
       /\ \A j \in 1..Len(Buffer) : Buffer[j] = Indeterminate
       /\ \A a \in Addrs \ {_values} : heap[a].state \in {"unused", "freed"}
  /\ pc = "done" =>
       /\ err = "None"
       /\ ret \in Values
       /\ Buffer[scen.index + 1] = Indeterminate

\* C8 witness: the read after the second init returned another value than
\* the one written before it
C8_Witness ==
  /\ pc = "done"
  /\ err = "None"
  /\ ret # scen.value

\* C9: on a map that was never bound to a mesh, init(d) and
\* init(d, requestedSize) stop with NoMeshBound and leave the map as
\* constructed: no mesh, dim 0, size 0, no buffer; an access on such a map
\* stops with UseBeforeInit.
C9_NoMeshInit ==
  /\ (call.op \in {"init_dim", "init_dim_size"} /\ _mesh = NullPtr) =>
       /\ err = "NoMeshBound"
       /\ ~Initialized
       /\ _dim = 0
       /\ _size = 0
       /\ \A a \in Addrs : heap[a] = NoBlock
  /\ (call.op \in AccessOps /\ _mesh = NullPtr) => err = "UseBeforeInit"

\* C9 witness: init(d, requestedSize) with a positive requestedSize stopped
\* with NoMeshBound
C9_Witness ==
  /\ call.op = "init_dim_size"
  /\ call.size > 0
  /\ _mesh = NullPtr
  /\ err = "NoMeshBound"

\* the buffer, the size and the free store agree
C10_StorageInv ==
  /\ (alive /\ ~Initialized) =>
       (_size = 0 /\ \A a \in Addrs : heap[a] = NoBlock)
  /\ (alive /\ Initialized) =>
       /\ LiveAddrs = {_values}
       /\ Len(Buffer) = _size
  /\ ~alive => LiveAddrs = {}
  /\ Cardinality(LiveAddrs) <= 1
  /\ \A a \in Addrs : heap[a].state # "doublefreed"

\* the accessors and the reads leave the object and the free store alone
C10_PureFrame ==
  (call'.op \in {"dim", "size", "mesh", "values", "get", "access_read"}) =>
    UNCHANGED objvars

\* C10: in every reachable state the buffer is absent, and then size() is
\* 0 and nothing was ever allocated, or it is the one live block and holds
\* exactly size() slots; no block is released twice and none is left live
\* behind; and dim(), size(), mesh(), values(), get and a read through
\* access change nothing of the object or the free store.
C10_StorageInvariant == [] C10_StorageInv /\ [][C10_PureFrame]_vars

\* C10 witness: a buffer was replaced by a re-init and the replaced block
\* is released while the new one is live
C10_Witness ==
  /\ alive
  /\ Initialized
  /\ _size > 0
  /\ Released # {}
  /\ call.op = "values"
  /\ ret = _values

====
